---- MODULE Spec2Model ----
(***************************************************************************)
(* Model of the cc-mirror State Bridge optimizer (src/optimizer):          *)
(*   skill_metrics.py   TypeScriptMetric, TestDocMetric, lookup            *)
(*   skill_adapters.py  TypeScriptCodeAdapter, TestDocAdapter, lookup      *)
(*   optimize.py        CLIReflectionLM, run_optimization and its helpers  *)
(*                                                                         *)
(* Texts are sequences of lexemes (tokens).  A token is one maximal piece  *)
(* of text the regular expressions of the source can tell apart: a word    *)
(* such as "export", a punctuation mark, one blank " " or one newline.     *)
(* Scores are kept in thousandths (1000 is 1.0, 325 is 0.325).             *)
(***************************************************************************)
EXTENDS Integers, Sequences, FiniteSets, TLC

(***************************************************************************)
(* Bounds of the model.                                                    *)
(***************************************************************************)
MaxFrags == 3
MaxInstrLen == 1
MaxStories == 2
MaxRollouts == 2
MaxRuns == 2
MaxReplyLen == 4
MaxDemos == 3
MaxOutFrags == 1
MaxParts == 2
MaxPairFrags == 2

(***************************************************************************)
(* State.                                                                  *)
(***************************************************************************)
VARIABLES
    mSkill,      \* skill_name given to get_metric_for_skill
    mCode,       \* prediction.code_output (Missing: no such attribute)
    mPc,         \* "ready" before __call__, "scored" after it
    mResult      \* the value __call__ returned

metricVars == <<mSkill, mCode, mPc, mResult>>

VARIABLES
    aKind,          \* class of the adapter
    aInstructions,  \* predictor.signature.instructions
    aDemos,         \* self.demos
    aPc,            \* "ready", or "returned" while the caller holds a result
    aOutcome,       \* what subprocess.run did in the forward call
    aPrompt,        \* the prompt the forward call built
    aResult         \* what the forward call returned

adapterVars == <<aKind, aInstructions, aDemos, aPc, aOutcome, aPrompt, aResult>>

VARIABLES
    skill_name,        \* --skill: names the skill directory
    category,          \* --category
    max_rollouts,      \* --rollouts
    stories,           \* contents of stories/<category>/*.story.md
    optimizer,         \* whether COPRO can be imported and constructed
    adapter_md,        \* skills/<skill>/adapter.md (Absent: no such file)
    skill_md,          \* skills/<skill>/SKILL.md (Absent: no such file)
    versions,          \* <output>/skill_versions/adapter_md_<timestamp>.md
    diffs,             \* skills/<skill>/diffs/run_<timestamp>.diff
    summaries,         \* <output>/optimization_<skill>_<timestamp>.json
    pc,                \* where run_optimization is
    timestamp,         \* number of the run, standing for its time stamp
    baseline_content,  \* what load_baseline_skill returned
    metricKind,        \* class of the metric built for the skill
    trainset,          \* the trainset handed to optimizer.compile
    compile_calls,     \* calls of optimizer.compile in this run
    result,            \* how the run ended
    log,               \* the [ERROR] lines this run printed
    fsAtStart,         \* the files as they were when the run started
    calls              \* what the run has called so far, in order

fsVars  == <<adapter_md, skill_md, versions, diffs, summaries>>
envVars == <<skill_name, category, max_rollouts, stories, optimizer>>
runVars == <<pc, timestamp, baseline_content, metricKind, trainset, compile_calls,
             result, log, fsAtStart, calls>>
driverVars == <<envVars, fsVars, runVars>>

VARIABLES
    lmPrompt,     \* the prompt argument of CLIReflectionLM.forward (<<>>: None or "")
    lmMessages,   \* the messages argument (<<>>: not given)
    lmModelEnv,   \* the environment variable GEMINI_MODEL ("": unset)
    lmPc,         \* "ready" before forward, "returned" after it
    lmOutcome,    \* what the external process did
    lmArgs,       \* the command line forward built
    lmResult      \* the list forward returned

reflectVars == <<lmPrompt, lmMessages, lmModelEnv, lmPc, lmOutcome, lmArgs, lmResult>>

VARIABLES
    ldRoot,       \* the root directory given to a loader, with its subdirectories
    ldCategory,   \* the category argument ("": None or empty)
    ldStoryId,    \* the story_id argument of load_examples_from_dir ("": None)
    ldPc,         \* "ready" before the call; "examples", "stories" or "raised" after it
    ldResult      \* what the loader returned, or the exception it raised

loaderVars == <<ldRoot, ldCategory, ldStoryId, ldPc, ldResult>>

VARIABLES
    pKind,        \* class of the metric that scores the two predictions
    pFirst,       \* code_output of the first prediction
    pSecond,      \* code_output of the second prediction
    pPc,          \* "ready" before the two calls, "scored" after them
    pResults      \* the two values __call__ returned

pairVars == <<pKind, pFirst, pSecond, pPc, pResults>>

vars == <<metricVars, adapterVars, driverVars, reflectVars, loaderVars, pairVars>>

notMetricVars  == <<adapterVars, driverVars, reflectVars, loaderVars, pairVars>>
notAdapterVars == <<metricVars, driverVars, reflectVars, loaderVars, pairVars>>
notReflectVars == <<metricVars, adapterVars, driverVars, loaderVars, pairVars>>
notLoaderVars  == <<metricVars, adapterVars, driverVars, reflectVars, pairVars>>
notPairVars    == <<metricVars, adapterVars, driverVars, reflectVars, loaderVars>>

(***************************************************************************)
(* Text helpers shared by the metrics.                                     *)
(***************************************************************************)
None == "None"

\* getattr(prediction, 'code_output', '') of a prediction without the attribute,
\* and a None value: both are falsy
Missing == <<"<missing>">>

\* the lexeme of three backquotes that opens or closes a fenced block
Fence == "FENCE"

IsWS(t) == t \in {" ", "\n"}

\* tokens that begin with a \w character
WordTokens ==
    {"export", "interface", "type", "import", "async", "await", "Promise",
     "function", "const", "class", "default", "try", "catch", "throw", "new",
     "Error", "foo", "describe", "it", "test", "Given", "When", "Then",
     "beforeEach", "afterEach", "verify", "check", "assert", "expect", "mock",
     "fixture", "coverage", "edge", "case", "should"}

IsWord(t) == t \in WordTokens

\* str.lower() on one token
Lower(t) ==
    CASE t = "Error"      -> "error"
      [] t = "Promise"    -> "promise"
      [] t = "Given"      -> "given"
      [] t = "When"       -> "when"
      [] t = "Then"       -> "then"
      [] t = "beforeEach" -> "beforeeach"
      [] t = "afterEach"  -> "aftereach"
      [] OTHER            -> t

\* first index >= i of s that is not whitespace (Len(s)+1 when there is none)
RECURSIVE SkipWS(_, _)
SkipWS(s, i) ==
    IF i > Len(s) THEN Len(s) + 1
    ELSE IF IsWS(s[i]) THEN SkipWS(s, i + 1) ELSE i

\* first index >= i of s that is not a word token
RECURSIVE SkipWord(_, _)
SkipWord(s, i) ==
    IF i > Len(s) THEN Len(s) + 1
    ELSE IF IsWord(s[i]) THEN SkipWord(s, i + 1) ELSE i

At(s, i) == IF i >= 1 /\ i <= Len(s) THEN s[i] ELSE None

\* regex  a\s*b  matched at position i
MatchOptWS(s, i, a, b) == At(s, i) = a /\ At(s, SkipWS(s, i + 1)) = b

\* regex  a\s+\w  matched at position i
MatchWSWord(s, i, a) ==
    /\ At(s, i) = a
    /\ IsWS(At(s, i + 1))
    /\ IsWord(At(s, SkipWS(s, i + 1)))

\* kw in code
Contains(s, kw) == \E i \in 1..Len(s) : s[i] = kw

\* kw.lower() in code.lower(), kw a single word
ContainsLower(s, kw) == \E i \in 1..Len(s) : Lower(s[i]) = kw

\* 'edge case' in code.lower(): two words with exactly one blank between
ContainsEdgeCase(s) ==
    \E i \in 1..Len(s) :
        Lower(s[i]) = "edge" /\ At(s, i + 1) = " " /\ Lower(At(s, i + 2)) = "case"

\* re.MULTILINE: ^ matches at the start of the text and after each newline
LineStart(s, i) == i = 1 \/ (i > 1 /\ i <= Len(s) + 1 /\ s[i - 1] = "\n")

\* the guard without .strip(): only a missing or empty output is caught
IsBlank_NoStrip(code) == code = Missing \/ code = <<>>

\* not code or not code.strip()
IsBlank(code) == code = Missing \/ \A i \in 1..Len(code) : IsWS(code[i])

RECURSIVE SumSeq(_)
SumSeq(s) == IF s = <<>> THEN 0 ELSE Head(s) + SumSeq(Tail(s))

Cardinal(S) == Cardinality(S)

(***************************************************************************)
(* skill_metrics.py: TypeScriptMetric                                      *)
(***************************************************************************)
ts_keywords == <<"interface", "type", "export", "import", "async", "await", "Promise">>

TsKeywordCount(code) ==
    Cardinal({k \in 1..Len(ts_keywords) : Contains(code, ts_keywords[k])})

TsKeywordThreshold == 2

\* (function\s+\w+|const\s+\w+\s*=\s*async?\s*\(|class\s+\w+)
has_functions(code) ==
    \E i \in 1..Len(code) :
        \/ MatchWSWord(code, i, "function")
        \/ MatchWSWord(code, i, "class")
        \/ /\ MatchWSWord(code, i, "const")
           /\ LET e == SkipWS(code, SkipWord(code, SkipWS(code, i + 1)))
              IN  /\ At(code, e) = "="
                  /\ MatchOptWS(code, SkipWS(code, e + 1), "async", "(")

\* (try\s*\{|catch\s*\(|Error|throw\s+new)
has_error_handling(code) ==
    \E i \in 1..Len(code) :
        \/ MatchOptWS(code, i, "try", "{")
        \/ MatchOptWS(code, i, "catch", "(")
        \/ code[i] = "Error"
        \/ /\ code[i] = "throw"
           /\ IsWS(At(code, i + 1))
           /\ At(code, SkipWS(code, i + 1)) = "new"

ExportTargets == {"function", "const", "class", "interface", "type"}

\* export\s+(default\s+)?(function|const|class|interface|type)
has_exports(code) ==
    \E i \in 1..Len(code) :
        /\ code[i] = "export"
        /\ IsWS(At(code, i + 1))
        /\ LET j == SkipWS(code, i + 1)
           IN  \/ At(code, j) \in ExportTargets
               \/ /\ At(code, j) = "default"
                  /\ IsWS(At(code, j + 1))
                  /\ At(code, SkipWS(code, j + 1)) \in ExportTargets

Hard(found)  == IF found THEN 1000 ELSE 0

\* a soft check that pays for the absence of what it looks for
Soft_Inverted(found) == IF found THEN 500 ELSE 1000

Soft(found)  == IF found THEN 1000 ELSE 500

\* a keyword count that gives nothing below its threshold
Count_Zero(found) == IF found THEN 1000 ELSE 0

Count(found) == IF found THEN 1000 ELSE 300

Glyph(found, miss) == IF found THEN "ok" ELSE miss

\* _score_result: the float subclass carrying .feedback; checks is the local
\* list of __call__, kept to tell which checks were run
ScoreResult(s, fb, ch) == [score |-> s, feedback |-> fb, checks |-> ch]

\* score = sum(checks) / len(checks) if checks else 0.0
NoResult == ScoreResult(-1, <<>>, <<>>)

\* the sum is divided by the number of checks that were found, not by the
\* number of checks
Mean_OverFound(ch) ==
    LET n == Cardinal({k \in 1..Len(ch) : ch[k] = 1000})
    IN  IF n > 0 THEN SumSeq(ch) \div n ELSE 0

Mean(ch) == IF Len(ch) > 0 THEN SumSeq(ch) \div Len(ch) ELSE 0

TsChecks(code) ==
    << Count(TsKeywordCount(code) >= TsKeywordThreshold),
       Hard(has_functions(code)),
       Soft(has_error_handling(code)),
       Soft(has_exports(code)) >>

TsFeedback(code) ==
    << <<Glyph(TsKeywordCount(code) >= TsKeywordThreshold, "soft"),
         "TypeScript keywords", TsKeywordCount(code)>>,
       <<Glyph(has_functions(code), "fail"), "Functions/classes found">>,
       <<Glyph(has_error_handling(code), "soft"), "Error handling",
         IF has_error_handling(code) THEN "found" ELSE "missing">>,
       <<Glyph(has_exports(code), "soft"), "Exports",
         IF has_exports(code) THEN "found" ELSE "missing">> >>

NoContent == << <<"No content generated">> >>

TypeScriptMetric(code) ==
    IF IsBlank(code)
    THEN ScoreResult(0, NoContent, <<>>)
    ELSE ScoreResult(Mean(TsChecks(code)), TsFeedback(code), TsChecks(code))

(***************************************************************************)
(* skill_metrics.py: TestDocMetric                                         *)
(***************************************************************************)
\* (describe\s*\(|it\s*\(|test\s*\(|Given|When|Then|beforeEach|afterEach), re.IGNORECASE
has_test_structure(code) ==
    \E i \in 1..Len(code) :
        \/ /\ Lower(code[i]) \in {"describe", "it", "test"}
           /\ At(code, SkipWS(code, i + 1)) = "("
        \/ Lower(code[i]) \in {"given", "when", "then", "beforeeach", "aftereach"}

test_keywords ==
    <<"test", "verify", "check", "assert", "expect", "mock",
      "fixture", "coverage", "edge case", "error", "should">>

TestKeywordIn(code, kw) ==
    IF kw = "edge case" THEN ContainsEdgeCase(code) ELSE ContainsLower(code, kw)

TestKeywordCount(code) ==
    Cardinal({k \in 1..Len(test_keywords) : TestKeywordIn(code, test_keywords[k])})

TestKeywordThreshold == 3

\* ^#+\s+\w, re.MULTILINE
has_headers(code) ==
    \E i \in 1..Len(code) :
        /\ LineStart(code, i)
        /\ code[i] = "#"
        /\ \E j \in i..Len(code) :
              /\ \A k \in i..j : code[k] = "#"
              /\ IsWS(At(code, j + 1))
              /\ IsWord(At(code, SkipWS(code, j + 1)))

\* the regex of check 4 (re.MULTILINE): line start, optional whitespace, a dash or
\* a star, whitespace, a word character; or a code fence anywhere
has_structure(code) ==
    \/ Contains(code, Fence)
    \/ \E i \in 1..Len(code) :
          /\ code[i] \in {"-", "*"}
          /\ \E p \in 1..i : LineStart(code, p) /\ \A k \in p..(i - 1) : IsWS(code[k])
          /\ IsWS(At(code, i + 1))
          /\ IsWord(At(code, SkipWS(code, i + 1)))

\* the keyword check of the documentation variant weighted like the one of
\* the code variant
DocKeywordPartial_LikeCode(found) == IF found THEN 1000 ELSE 300

\* checks.append(1.0 if has_test_content else 0.5)
DocKeywordPartial(found) == IF found THEN 1000 ELSE 500

DocChecks(code) ==
    << Hard(has_test_structure(code)),
       DocKeywordPartial(TestKeywordCount(code) >= TestKeywordThreshold),
       Soft(has_headers(code)),
       Soft(has_structure(code)) >>

DocFeedback(code) ==
    << <<Glyph(has_test_structure(code), "fail"), "Test structure found">>,
       <<Glyph(TestKeywordCount(code) >= TestKeywordThreshold, "soft"),
         "Test keywords", TestKeywordCount(code)>>,
       <<Glyph(has_headers(code), "soft"), "Headers",
         IF has_headers(code) THEN "found" ELSE "none">>,
       <<Glyph(has_structure(code), "soft"), "Lists/code blocks",
         IF has_structure(code) THEN "found" ELSE "none">> >>

TestDocMetric(code) ==
    IF IsBlank(code)
    THEN ScoreResult(0, NoContent, <<>>)
    ELSE ScoreResult(Mean(DocChecks(code)), DocFeedback(code), DocChecks(code))

(***************************************************************************)
(* skill_metrics.py: get_metric_for_skill                                  *)
(***************************************************************************)
\* the lookup with the default branch returning the other metric
get_metric_for_skill_DocDefault(name) ==
    IF name = "backend-engineer" THEN "TypeScriptMetric"
    ELSE IF name = "qa-engineer" THEN "TestDocMetric"
    ELSE "TestDocMetric"

get_metric_for_skill(name) ==
    IF name = "backend-engineer" THEN "TypeScriptMetric"
    ELSE IF name = "qa-engineer" THEN "TestDocMetric"
    ELSE "TypeScriptMetric"

Metric(kind, code) ==
    IF kind = "TestDocMetric" THEN TestDocMetric(code) ELSE TypeScriptMetric(code)

(***************************************************************************)
(* skill_adapters.py: the two adapters                                     *)
(***************************************************************************)
get_adapter_for_skill(name) ==
    IF name = "backend-engineer" THEN "TypeScriptCodeAdapter"
    ELSE IF name = "qa-engineer" THEN "TestDocAdapter"
    ELSE "TypeScriptCodeAdapter"

\* the docstring of the signature class, which dspy installs as the
\* instructions until with_instructions replaces them
SignatureDoc(kind) ==
    IF kind = "TestDocAdapter"
    THEN <<"Signature for test documentation tasks.">>
    ELSE <<"Signature for TypeScript code generation tasks.">>

\* __init__: if base_instruction: signature.with_instructions(base_instruction)
InitialInstructions(kind, base_instruction) ==
    IF base_instruction # <<>> THEN base_instruction ELSE SignatureDoc(kind)

\* the demos without the cut
FirstTwo_All(demos) == demos

\* self.demos[:2]
FirstTwo(demos) == SubSeq(demos, 1, IF Len(demos) < 2 THEN Len(demos) ELSE 2)

TsDirective  == "TypeScript code implementing the requirements"
DocDirective == "Test documentation with"

\* TypeScriptCodeAdapter._prepare_prompt: the parts of the f-string, in order
TsPreparePrompt(instructions, demos, story_context, tech_stack) ==
    [ instructions |-> instructions,
      tech_stack   |-> <<tech_stack>>,
      demos        |-> FirstTwo(demos),
      task         |-> story_context,
      directive    |-> TsDirective ]

\* TestDocAdapter._prepare_prompt: no technology stack section
DocPreparePrompt(instructions, demos, story_context) ==
    [ instructions |-> instructions,
      tech_stack   |-> <<>>,
      demos        |-> FirstTwo(demos),
      task         |-> story_context,
      directive    |-> DocDirective ]

LangTags == {"typescript", "ts", "javascript", "js"}

\* index of the first fence at or after i (0 when there is none)
RECURSIVE NextFence(_, _)
NextFence(s, i) ==
    IF i > Len(s) THEN 0
    ELSE IF s[i] = Fence THEN i ELSE NextFence(s, i + 1)

\* where the content starts when the opening of the pattern matches at i:
\* a fence, an optional language tag of LangTags, a newline (0: no match)
OpenAt(s, i) ==
    IF At(s, i) # Fence THEN 0
    ELSE IF At(s, i + 1) = "\n" THEN i + 2
    ELSE IF At(s, i + 1) \in LangTags /\ At(s, i + 2) = "\n" THEN i + 3
    ELSE 0

\* re.findall of the block pattern with re.DOTALL: the non-overlapping
\* matches from left to right, each group lazy up to the next fence
RECURSIVE FindBlocks(_, _)
FindBlocks(s, i) ==
    IF i > Len(s) THEN <<>>
    ELSE LET c == OpenAt(s, i)
             k == IF c = 0 THEN 0 ELSE NextFence(s, c)
         IN  IF k = 0 THEN FindBlocks(s, i + 1)
             ELSE <<SubSeq(s, c, k - 1)>> \o FindBlocks(s, k + 1)

\* "\n\n".join(code_blocks)
RECURSIVE JoinBlocks(_)
JoinBlocks(bs) ==
    IF Len(bs) = 0 THEN <<>>
    ELSE IF Len(bs) = 1 THEN bs[1]
    ELSE bs[1] \o <<"\n", "\n">> \o JoinBlocks(Tail(bs))

\* TypeScriptCodeAdapter._extract_code
ExtractCode(stdout) ==
    LET code_blocks == FindBlocks(stdout, 1)
    IN  IF Len(code_blocks) > 0 THEN JoinBlocks(code_blocks) ELSE stdout

\* str.strip()
RECURSIVE Strip(_)
Strip(s) ==
    IF s = <<>> THEN s
    ELSE IF IsWS(s[1]) THEN Strip(Tail(s))
    ELSE IF IsWS(s[Len(s)]) THEN Strip(SubSeq(s, 1, Len(s) - 1))
    ELSE s

ReasoningHeader == <<"##", " ", "Reasoning", "\n">>

\* first index at or after i where the header "## Reasoning\n" starts (0: none)
RECURSIVE HeaderAt(_, _)
HeaderAt(s, i) ==
    IF i + 3 > Len(s) THEN 0
    ELSE IF SubSeq(s, i, i + 3) = ReasoningHeader THEN i
    ELSE HeaderAt(s, i + 1)

\* first index at or after i holding "##", or Len(s)+1
RECURSIVE NextHashes(_, _)
NextHashes(s, i) ==
    IF i > Len(s) THEN Len(s) + 1
    ELSE IF s[i] = "##" THEN i ELSE NextHashes(s, i + 1)

\* _extract_reasoning: the text after the header up to the next "##" or the
\* end, stripped; "" when there is no header
ExtractReasoning(stdout) ==
    LET h == HeaderAt(stdout, 1)
    IN  IF h = 0 THEN <<>>
        ELSE Strip(SubSeq(stdout, h + 4, NextHashes(stdout, h + 4) - 1))

\* what subprocess.run did: it raised (the binary is not there, the timeout
\* expired, another OSError), or the process ran and exited with a return
\* code and its standard output; check=True is not passed, so an exit raises
\* nothing whatever the return code
Raised(outcome) == outcome.kind \in {"FileNotFoundError", "TimeoutExpired", "OSError"}

\* f"Error: {str(e)}"
ErrorReasoning(outcome) == <<"Error: ", outcome.kind>>

Prediction(code_output, reasoning) ==
    [kind |-> "Prediction", code_output |-> code_output, reasoning |-> reasoning]

\* TypeScriptCodeAdapter.forward, from the return of subprocess.run on
TsForwardResult(outcome) ==
    IF Raised(outcome)
    THEN Prediction(<<>>, ErrorReasoning(outcome))
    ELSE Prediction(ExtractCode(outcome.stdout), ExtractReasoning(outcome.stdout))

\* the documentation adapter taking the fenced blocks as the code adapter does
DocForwardResult_Extracts(outcome) ==
    IF Raised(outcome)
    THEN Prediction(<<>>, ErrorReasoning(outcome))
    ELSE Prediction(ExtractCode(outcome.stdout), ExtractReasoning(outcome.stdout))

\* TestDocAdapter.forward, from the return of subprocess.run on
DocForwardResult(outcome) ==
    IF Raised(outcome)
    THEN Prediction(<<>>, ErrorReasoning(outcome))
    ELSE Prediction(outcome.stdout, ExtractReasoning(outcome.stdout))

(***************************************************************************)
(* optimize.py: load_baseline_skill, save_optimized_skill and the pieces   *)
(* of run_optimization                                                     *)
(***************************************************************************)
Absent == <<"<absent>">>

\* a run of whitespace starting at i holds a newline
WSRunHasNewline(s, i) == \E r \in i..(SkipWS(s, i) - 1) : s[r] = "\n"

\* the newlines that can end the opening delimiter: those of the whitespace
\* run after the leading "---"
Openers(s) == {n \in 2..(SkipWS(s, 2) - 1) : s[n] = "\n"}

\* where the closing delimiter can start after the opener n: a newline
\* followed by "---", whitespace and a newline
ClosersAfter(s, n) ==
    {q \in (n + 1)..Len(s) :
        /\ s[q] = "\n"
        /\ At(s, q + 1) = "---"
        /\ WSRunHasNewline(s, q + 2)}

Least(S)    == CHOOSE x \in S : \A y \in S : x <= y
Greatest(S) == CHOOSE x \in S : \A y \in S : x >= y

\* re.match(r'^---\s*\n.*?\n---\s*\n(.*)', content, re.DOTALL):
\* match.group(1).strip() when it matches, else the content itself.  The
\* greedy \s* prefers the last opener, the lazy .*? the first closer after it.
SkillBody(content) ==
    LET ok == {n \in Openers(content) : ClosersAfter(content, n) # {}}
    IN  IF At(content, 1) = "---" /\ ok # {}
        THEN Strip(SubSeq(content, Least(ClosersAfter(content, Greatest(ok))) + 2,
                          Len(content)))
        ELSE content

\* Path.read_text(): the text mode of open() with newline=None turns every
\* "\r\n" and every lone "\r" of the file into "\n"
RECURSIVE ReadText(_)
ReadText(file) ==
    IF file = <<>> THEN <<>>
    ELSE IF Head(file) = "\r"
         THEN <<"\n">> \o ReadText(IF Len(file) >= 2 /\ file[2] = "\n"
                                   THEN Tail(Tail(file)) ELSE Tail(file))
         ELSE <<Head(file)>> \o ReadText(Tail(file))

\* Path.write_text(text, encoding='utf-8') where os.linesep is "\n": the
\* characters go to the file as they are, a "\r" included
WriteText(text) == text

\* the loader answering with an empty instruction when no file is there
load_baseline_skill_EmptyDefault(adapterFile, skillFile) ==
    IF adapterFile # Absent THEN ReadText(adapterFile)
    ELSE IF skillFile # Absent THEN SkillBody(ReadText(skillFile))
    ELSE <<>>

\* load_baseline_skill: the instruction, or Absent when it raises
\* FileNotFoundError
load_baseline_skill(adapterFile, skillFile) ==
    IF adapterFile # Absent THEN ReadText(adapterFile)
    ELSE IF skillFile # Absent THEN SkillBody(ReadText(skillFile))
    ELSE Absent

\* str.splitlines(keepends): a line ends after each "\n", "\r\n" or lone "\r"
RECURSIVE SplitFrom(_, _, _, _)
SplitFrom(s, i, cur, keepends) ==
    IF i > Len(s) THEN (IF cur = <<>> THEN <<>> ELSE <<cur>>)
    ELSE IF s[i] = "\r" /\ i < Len(s) /\ s[i + 1] = "\n"
         THEN <<(IF keepends THEN cur \o <<"\r", "\n">> ELSE cur)>>
              \o SplitFrom(s, i + 2, <<>>, keepends)
    ELSE IF s[i] \in {"\n", "\r"}
         THEN <<(IF keepends THEN cur \o <<s[i]>> ELSE cur)>> \o SplitFrom(s, i + 1, <<>>, keepends)
         ELSE SplitFrom(s, i + 1, cur \o <<s[i]>>, keepends)

\* the lines without their line ends
SplitLines_NoEnds(text) == SplitFrom(text, 1, <<>>, FALSE)

\* text.splitlines(keepends=True)
SplitLines(text) == SplitFrom(text, 1, <<>>, TRUE)

\* list(difflib.unified_diff(a, b, ...)): nothing when the two lists of lines
\* are equal, else the two file headers and the hunks (kept as the two lists)
UnifiedDiff(a, b) ==
    IF a = b THEN <<>>
    ELSE <<"--- baseline_adapter.md", "+++ optimized_adapter.md", a, b>>

\* len(text): "---" is three characters, every other token one
RECURSIVE Chars(_)
Chars(s) ==
    IF s = <<>> THEN 0
    ELSE (IF Head(s) = "---" THEN 3 ELSE 1) + Chars(Tail(s))

Min(a, b) == IF a < b THEN a ELSE b
Max(a, b) == IF a > b THEN a ELSE b

\* xs[:n] of Python: a negative n counts from the end
SliceTo(xs, n) ==
    IF n >= 0 THEN SubSeq(xs, 1, Min(Len(xs), n))
    ELSE SubSeq(xs, 1, Max(Len(xs) + n, 0))

category_map(cat) ==
    CASE cat = "state-bridge" -> "backend"
      [] cat = "oauth"        -> "security"
      [] cat = "cli"          -> "backend"
      [] cat = "translation"  -> "backend"
      [] OTHER                     -> "backend"

(***************************************************************************)
(* optimize.py: CLIReflectionLM.forward.  The reply of the process is a    *)
(* sequence of the tokens "{", "}", the quoted key PI, ":v" (a colon and a *)
(* string value), "x" (text without braces) and the blank.                 *)
(***************************************************************************)
PI == "\"proposed_instruction\""

\* "instruction" in token.lower()
MentionsInstruction(t) ==
    t \in {"instruction", "Instruction", "proposed_instruction", "Proposed_Instruction"}

\* prompt_str = prompt or ""; without it, str(messages[-1])
PromptStr(prompt, messages) ==
    IF prompt # <<>> THEN prompt
    ELSE IF messages # <<>> THEN messages[Len(messages)]
    ELSE <<>>

\* "proposed_instruction" in prompt_str.lower() or "instruction" in prompt_str.lower()
IsCoproRequest(prompt_str) == \E i \in 1..Len(prompt_str) : MentionsInstruction(prompt_str[i])

JsonGuidance == "IMPORTANT: You MUST respond with valid JSON containing these fields"

EnhancedPrompt(prompt_str) ==
    IF IsCoproRequest(prompt_str) THEN prompt_str \o <<JsonGuidance>> ELSE prompt_str

\* cli_args: [binary, "-p", prompt] and "--model" <name> when GEMINI_MODEL is set
CliArgs(prompt_str, model_env) ==
    [prompt |-> EnhancedPrompt(prompt_str),
     model  |-> IF model_env # "" THEN <<"--model", model_env>> ELSE <<>>]

IsBrace(t) == t \in {"{", "}"}

\* index of the first brace at or after i (0: none)
RECURSIVE NextBrace(_, _)
NextBrace(s, i) ==
    IF i > Len(s) THEN 0
    ELSE IF IsBrace(s[i]) THEN i ELSE NextBrace(s, i + 1)

\* where the pattern  { no-brace* PI no-brace* }  matches
MatchStarts(s) ==
    {i \in 1..Len(s) :
        /\ s[i] = "{"
        /\ LET k == NextBrace(s, i + 1)
           IN  /\ k # 0
               /\ s[k] = "}"
               /\ \E j \in (i + 1)..(k - 1) : s[j] = PI}

\* re.search(...).group(0): the leftmost match, <<>> when there is none
JsonMatch(s) ==
    IF MatchStarts(s) = {} THEN <<>>
    ELSE LET i == Least(MatchStarts(s))
         IN  SubSeq(s, i, NextBrace(s, i + 1))

\* json.dumps({"proposed_instruction": value, "proposed_prefix_for_output_field": ""})
Dumps(value) == <<"{", PI, value, ",prefix", "}">>

FromContent == ":content[:2000]"
Minimal     == ":Follow the task requirements carefully."
Fallback    == ":Follow the task requirements."

\* lines 82-102: what becomes of the stripped reply
ReflectContent(is_copro_request, content) ==
    LET c == IF content # <<>>
             THEN IF JsonMatch(content) # <<>> THEN JsonMatch(content)
                  ELSE IF is_copro_request THEN Dumps(FromContent)
                  ELSE content
             ELSE content
    IN  IF c = <<>> THEN Dumps(Minimal) ELSE c

\* CLIReflectionLM.forward, from the start of the process on: Popen or
\* communicate raised, or the process exited with its standard output
ReflectForward(prompt_str, outcome) ==
    IF Raised(outcome)
    THEN <<Dumps(Fallback)>>
    ELSE <<ReflectContent(IsCoproRequest(prompt_str), Strip(outcome.stdout))>>

(***************************************************************************)
(* Values of a component before anything is there, and the state of a      *)
(* component that takes no part in a specification.                        *)
(***************************************************************************)
NoOutcome == [kind |-> "none", rc |-> -1, stdout |-> <<>>]
NoPrompt ==
    [instructions |-> <<>>, tech_stack |-> <<>>, demos |-> <<>>, task |-> <<>>,
     directive |-> "none"]
NoPrediction == [kind |-> "none", code_output |-> <<>>, reasoning |-> <<>>]

NoSummary ==
    [skill |-> "", category |-> "", optimizer |-> "None", baseline_chars |-> 0,
     optimized_chars |-> 0, changed |-> FALSE, timestamp |-> 0]
NoRunResult == [kind |-> "none", error |-> "", summary |-> NoSummary]

DriverIdle ==
    /\ skill_name = ""
    /\ category = ""
    /\ max_rollouts = 0
    /\ stories = <<>>
    /\ optimizer = "ok"
    /\ adapter_md = Absent
    /\ skill_md = Absent
    /\ versions = {}
    /\ diffs = {}
    /\ summaries = {}
    /\ pc = "off"
    /\ timestamp = 0
    /\ baseline_content = Absent
    /\ metricKind = "none"
    /\ trainset = <<>>
    /\ compile_calls = 0
    /\ result = NoRunResult
    /\ log = {}
    /\ fsAtStart = <<Absent, Absent, {}, {}, {}>>
    /\ calls = <<>>

ReflectIdle ==
    /\ lmPrompt = <<>>
    /\ lmMessages = <<>>
    /\ lmModelEnv = ""
    /\ lmPc = "idle"
    /\ lmOutcome = NoOutcome
    /\ lmArgs = <<>>
    /\ lmResult = <<>>

MetricIdle ==
    /\ mSkill = ""
    /\ mCode = Missing
    /\ mPc = "idle"
    /\ mResult = NoResult

LoaderIdle ==
    /\ ldRoot = [exists |-> FALSE, dirs |-> <<>>]
    /\ ldCategory = ""
    /\ ldStoryId = ""
    /\ ldPc = "idle"
    /\ ldResult = [kind |-> "none", items |-> <<>>]

PairIdle ==
    /\ pKind = "none"
    /\ pFirst = <<>>
    /\ pSecond = <<>>
    /\ pPc = "idle"
    /\ pResults = <<>>

AdapterIdle ==
    /\ aKind = "none"
    /\ aInstructions = <<>>
    /\ aDemos = <<>>
    /\ aPc = "idle"
    /\ aOutcome = NoOutcome
    /\ aPrompt = NoPrompt
    /\ aResult = NoPrediction

(***************************************************************************)
(* The metric as a machine: one prediction is scored by the metric the     *)
(* skill selects.                                                          *)
(***************************************************************************)

Skills == {"backend-engineer", "qa-engineer", "frontend-engineer"}

\* pieces the scored texts are built from
Fragments ==
    { <<"export", " ", "function", " ", "foo">>,
      <<"interface">>,
      <<"async">>,
      <<"Error">>,
      <<"foo">>,
      <<" ">>,
      <<"\n">>,
      <<"it", "(", "should", " ", "expect", " ", "assert">>,
      <<"should">>,
      <<"test">>,
      <<"#", " ", "foo", "\n">>,
      <<"-", " ", "foo">> }

RECURSIVE TextsUpTo(_)
TextsUpTo(n) ==
    IF n = 0 THEN {<<>>}
    ELSE LET prev == TextsUpTo(n - 1)
         IN  prev \cup {t \o f : t \in prev, f \in Fragments}

Texts == TextsUpTo(MaxFrags)

MetricInit ==
    /\ mSkill \in Skills
    /\ mCode \in Texts \cup {Missing}
    /\ mPc = "ready"
    /\ mResult = NoResult
    /\ AdapterIdle
    /\ DriverIdle
    /\ ReflectIdle
    /\ LoaderIdle
    /\ PairIdle

\* TypeScriptMetric.__call__
TypeScriptMetricCall ==
    /\ mPc = "ready"
    /\ get_metric_for_skill(mSkill) = "TypeScriptMetric"
    /\ mResult' = TypeScriptMetric(mCode)
    /\ mPc' = "scored"
    /\ UNCHANGED <<mSkill, mCode>>
    /\ UNCHANGED notMetricVars

\* TestDocMetric.__call__
TestDocMetricCall ==
    /\ mPc = "ready"
    /\ get_metric_for_skill(mSkill) = "TestDocMetric"
    /\ mResult' = TestDocMetric(mCode)
    /\ mPc' = "scored"
    /\ UNCHANGED <<mSkill, mCode>>
    /\ UNCHANGED notMetricVars

MetricNext == TypeScriptMetricCall \/ TestDocMetricCall

(***************************************************************************)
(* The adapter as a machine: an adapter is built for a skill, its          *)
(* instruction is overwritten and forward is called, in any order.         *)
(***************************************************************************)
RECURSIVE SeqsUpTo(_, _)
SeqsUpTo(S, n) ==
    IF n = 0 THEN {<<>>}
    ELSE LET prev == SeqsUpTo(S, n - 1)
         IN  prev \cup {t \o <<x>> : t \in prev, x \in S}

\* instruction texts, character by character
InstrChars == {"a", "\n"}

\* an instruction with a carriage return in it
WithCR == <<"a", "\r">>

Instr == SeqsUpTo(InstrChars, MaxInstrLen) \cup {WithCR}

AllDemos == <<"demo1", "demo2", "demo3", "demo4", "demo5">>
DemoLists == {SubSeq(AllDemos, 1, n) : n \in 0..MaxDemos}

Stories == {<<"story1">>, <<"story2">>}

\* pieces the standard output of the external process is built from
OutFragments ==
    { <<Fence, "ts", "\n", "code", Fence>>,
      <<Fence, "\n", "code", "\n", Fence, "\n">>,
      <<Fence, "python", "\n", "code", Fence>>,
      <<Fence, "code", Fence>>,
      <<"text">>,
      <<"\n">>,
      <<"##", " ", "Reasoning", "\n", "why", "\n">>,
      <<"##", " ", "Notes">> }

RECURSIVE StdoutsUpTo(_)
StdoutsUpTo(n) ==
    IF n = 0 THEN {<<>>}
    ELSE LET prev == StdoutsUpTo(n - 1)
         IN  prev \cup {t \o f : t \in prev, f \in OutFragments}

Stdouts == StdoutsUpTo(MaxOutFrags)

ReturnCodes == {0, 1}

Outcomes ==
    [kind : {"FileNotFoundError", "TimeoutExpired", "OSError"}, rc : {-1}, stdout : {<<>>}]
    \cup [kind : {"exit"}, rc : ReturnCodes, stdout : Stdouts]

DefaultTechStack == "TypeScript, Node.js, Jest"

\* get_adapter_for_skill(skill_name, base_instruction=..., demos=...)
AdapterInit ==
    /\ \E skill \in Skills, base \in Instr :
          /\ aKind = get_adapter_for_skill(skill)
          /\ aInstructions = InitialInstructions(get_adapter_for_skill(skill), base)
    /\ aDemos \in DemoLists
    /\ aPc = "ready"
    /\ aOutcome = NoOutcome
    /\ aPrompt = NoPrompt
    /\ aResult = NoPrediction
    /\ MetricIdle
    /\ DriverIdle
    /\ ReflectIdle
    /\ LoaderIdle
    /\ PairIdle

\* adapter.predictor.signature.instructions = <text>
SetInstructions ==
    /\ aPc = "ready"
    /\ \E i \in Instr : aInstructions' = i
    /\ UNCHANGED <<aKind, aDemos, aPc, aOutcome, aPrompt, aResult>>
    /\ UNCHANGED notAdapterVars

\* TypeScriptCodeAdapter.forward
TsForward ==
    /\ aPc = "ready"
    /\ aKind = "TypeScriptCodeAdapter"
    /\ \E story \in Stories, outcome \in Outcomes :
          /\ aPrompt' = TsPreparePrompt(aInstructions, aDemos, story, DefaultTechStack)
          /\ aOutcome' = outcome
          /\ aResult' = TsForwardResult(outcome)
    /\ aPc' = "returned"
    /\ UNCHANGED <<aKind, aInstructions, aDemos>>
    /\ UNCHANGED notAdapterVars

\* TestDocAdapter.forward
DocForward ==
    /\ aPc = "ready"
    /\ aKind = "TestDocAdapter"
    /\ \E story \in Stories, outcome \in Outcomes :
          /\ aPrompt' = DocPreparePrompt(aInstructions, aDemos, story)
          /\ aOutcome' = outcome
          /\ aResult' = DocForwardResult(outcome)
    /\ aPc' = "returned"
    /\ UNCHANGED <<aKind, aInstructions, aDemos>>
    /\ UNCHANGED notAdapterVars

\* the caller or the optimizer has used the prediction
TakePrediction ==
    /\ aPc = "returned"
    /\ aPc' = "ready"
    /\ aOutcome' = NoOutcome
    /\ aPrompt' = NoPrompt
    /\ aResult' = NoPrediction
    /\ UNCHANGED <<aKind, aInstructions, aDemos>>
    /\ UNCHANGED notAdapterVars

AdapterNext == SetInstructions \/ TsForward \/ DocForward \/ TakePrediction

(***************************************************************************)
(* run_optimization as a machine.  The skill directory, the stories, the   *)
(* command line and the dspy installation are chosen once; runs follow     *)
(* each other on the same directory.  A run is cut where it calls          *)
(* optimizer.compile: while compile is running the optimizer overwrites    *)
(* the adapter's instruction; then compile returns or raises.              *)
(***************************************************************************)
AllStories == <<"story1", "story2", "story3", "story4">>
StoryLists == {SubSeq(AllStories, 1, n) : n \in 0..MaxStories}

Categories == {"state-bridge", "oauth"}

\* argparse type=int: any integer, negative ones too
RolloutValues == (-1)..MaxRollouts

\* files a skill directory can start with
AdapterFiles == {Absent, <<"a">>, <<"a", "\n">>}
SkillFiles ==
    {Absent,
     <<"---", "\n", "k", "\n", "---", "\n", "\n", "a", "\n">>,
     <<"a", "\n", "a">>}

\* golden-examples/<example category>/*.example.md: four examples for
\* backend, none for security
GoldenExamples(example_category) ==
    IF example_category = "backend" THEN SubSeq(AllDemos, 1, 4) ELSE <<>>

\* examples_to_demos(examples[:3])
DemosFor(cat) == SliceTo(GoldenExamples(category_map(cat)), 3)

Files == <<adapter_md, skill_md, versions, diffs, summaries>>

DriverInit ==
    /\ skill_name \in Skills
    /\ category \in Categories
    /\ max_rollouts \in RolloutValues
    /\ stories \in StoryLists
    /\ optimizer \in {"ok", "ImportError", "ConstructError"}
    /\ adapter_md \in AdapterFiles
    /\ skill_md \in SkillFiles
    /\ versions = {}
    /\ diffs = {}
    /\ summaries = {}
    /\ pc = "idle"
    /\ timestamp = 0
    /\ baseline_content = Absent
    /\ metricKind = "none"
    /\ trainset = <<>>
    /\ compile_calls = 0
    /\ result = NoRunResult
    /\ log = {}
    /\ fsAtStart = <<Absent, Absent, {}, {}, {}>>
    /\ calls = <<>>
    /\ MetricIdle
    /\ AdapterIdle
    /\ ReflectIdle
    /\ LoaderIdle
    /\ PairIdle

\* what a run calls, in order, up to the construction of the optimizer
CallsToOptimizer ==
    <<"load_baseline_skill", "load_stories", "load_examples_from_dir",
      "get_adapter_for_skill", "get_metric_for_skill", "COPRO">>

CanStart == pc \in {"idle", "returned", "raised"} /\ timestamp < MaxRuns

Loaded == load_baseline_skill(adapter_md, skill_md)

ReturnNone == [kind |-> "None", error |-> "", summary |-> NoSummary]
Raise(e)   == [kind |-> "raise", error |-> e, summary |-> NoSummary]

\* what every run does first: a new time stamp, nothing printed or built yet
StartRun ==
    /\ timestamp' = timestamp + 1
    /\ fsAtStart' = Files
    /\ baseline_content' = Loaded
    /\ UNCHANGED envVars

\* the adapter of the run is built and the baseline installed on it
BuildAdapter ==
    /\ aKind' = get_adapter_for_skill(skill_name)
    /\ aInstructions' = Loaded
    /\ aDemos' = DemosFor(category)
    /\ aOutcome' = NoOutcome
    /\ aPrompt' = NoPrompt
    /\ aResult' = NoPrediction

\* run_optimization, lines 209-213: load_baseline_skill raises
RunSkillNotFound ==
    /\ CanStart
    /\ Loaded = Absent
    /\ StartRun
    /\ calls' = <<"load_baseline_skill">>
    /\ pc' = "raised"
    /\ result' = Raise("FileNotFoundError")
    /\ log' = {}
    /\ metricKind' = "none"
    /\ trainset' = <<>>
    /\ compile_calls' = 0
    /\ UNCHANGED fsVars
    /\ UNCHANGED <<metricVars, adapterVars, reflectVars, loaderVars, pairVars>>

\* run_optimization, lines 209-222: no story, return None
RunNoStories ==
    /\ CanStart
    /\ Loaded # Absent
    /\ stories = <<>>
    /\ StartRun
    /\ calls' = <<"load_baseline_skill", "load_stories">>
    /\ pc' = "returned"
    /\ result' = ReturnNone
    /\ log' = {"No stories found"}
    /\ metricKind' = "none"
    /\ trainset' = <<>>
    /\ compile_calls' = 0
    /\ UNCHANGED fsVars
    /\ UNCHANGED <<metricVars, adapterVars, reflectVars, loaderVars, pairVars>>

\* the run with the optimizer replaced by None after the failed import: the
\* call of compile on it fails inside the try block, is logged and re-raised
RunOptimizerImportError_FallsThrough ==
    /\ CanStart
    /\ Loaded # Absent
    /\ stories # <<>>
    /\ optimizer = "ImportError"
    /\ StartRun
    /\ calls' = CallsToOptimizer
    /\ BuildAdapter
    /\ aPc' = "idle"
    /\ metricKind' = get_metric_for_skill(skill_name)
    /\ trainset' = <<>>
    /\ compile_calls' = 0
    /\ pc' = "raised"
    /\ result' = Raise("AttributeError")
    /\ log' = {"COPRO not available", "Optimization failed"}
    /\ UNCHANGED fsVars
    /\ UNCHANGED <<metricVars, reflectVars, loaderVars, pairVars>>

\* run_optimization, lines 209-289: importing or constructing COPRO raises
\* ImportError, which is printed, and the run returns None
RunOptimizerImportError ==
    /\ CanStart
    /\ Loaded # Absent
    /\ stories # <<>>
    /\ optimizer = "ImportError"
    /\ StartRun
    /\ calls' = CallsToOptimizer
    /\ BuildAdapter
    /\ aPc' = "idle"
    /\ metricKind' = get_metric_for_skill(skill_name)
    /\ trainset' = <<>>
    /\ compile_calls' = 0
    /\ pc' = "returned"
    /\ result' = ReturnNone
    /\ log' = {"COPRO not available"}
    /\ UNCHANGED fsVars
    /\ UNCHANGED <<metricVars, reflectVars, loaderVars, pairVars>>

\* run_optimization, lines 209-286: constructing COPRO raises another
\* exception; no handler is around it
RunOptimizerConstructError ==
    /\ CanStart
    /\ Loaded # Absent
    /\ stories # <<>>
    /\ optimizer = "ConstructError"
    /\ StartRun
    /\ calls' = CallsToOptimizer
    /\ BuildAdapter
    /\ aPc' = "idle"
    /\ metricKind' = get_metric_for_skill(skill_name)
    /\ trainset' = <<>>
    /\ compile_calls' = 0
    /\ pc' = "raised"
    /\ result' = Raise("ConstructError")
    /\ log' = {}
    /\ UNCHANGED fsVars
    /\ UNCHANGED <<metricVars, reflectVars, loaderVars, pairVars>>

\* run_optimization, lines 209-302: up to the call of optimizer.compile
RunCallsCompile ==
    /\ CanStart
    /\ Loaded # Absent
    /\ stories # <<>>
    /\ optimizer = "ok"
    /\ StartRun
    /\ calls' = CallsToOptimizer \o <<"compile">>
    /\ BuildAdapter
    /\ aPc' = "ready"
    /\ metricKind' = get_metric_for_skill(skill_name)
    /\ trainset' = SliceTo(stories, max_rollouts)
    /\ compile_calls' = 1
    /\ pc' = "compiling"
    /\ result' = NoRunResult
    /\ log' = {}
    /\ UNCHANGED fsVars
    /\ UNCHANGED <<metricVars, reflectVars, loaderVars, pairVars>>

\* a run that takes every final instruction for a new one
Changed_Always(final_instruction, baseline) == TRUE

\* final_instruction != baseline_content
Changed(final_instruction, baseline) == final_instruction # baseline

Summary(final_instruction) ==
    [ skill           |-> skill_name,
      category        |-> category,
      optimizer       |-> "COPRO",
      baseline_chars  |-> Chars(baseline_content),
      optimized_chars |-> Chars(final_instruction),
      changed         |-> Changed(final_instruction, baseline_content),
      timestamp       |-> timestamp ]

\* the diff save_optimized_skill computes
DiffOf(baseline, instruction) == UnifiedDiff(SplitLines(baseline), SplitLines(instruction))

\* save_optimized_skill
SaveOptimizedSkill(instruction) ==
    /\ adapter_md' = WriteText(instruction)
    /\ versions' = versions \cup {<<timestamp, WriteText(instruction)>>}
    /\ diffs' = IF DiffOf(baseline_content, instruction) # <<>>
                THEN diffs \cup {<<timestamp, DiffOf(baseline_content, instruction)>>}
                ELSE diffs

\* run_optimization, lines 298-339: compile returns the optimized adapter
CompileReturns ==
    /\ pc = "compiling"
    /\ aPc = "ready"
    /\ IF Changed(aInstructions, baseline_content)
       THEN SaveOptimizedSkill(aInstructions)
       ELSE UNCHANGED <<adapter_md, versions, diffs>>
    /\ summaries' = summaries \cup {Summary(aInstructions)}
    /\ result' = [kind |-> "summary", error |-> "", summary |-> Summary(aInstructions)]
    /\ pc' = "returned"
    /\ aPc' = "idle"
    /\ UNCHANGED <<skill_md, timestamp, baseline_content, metricKind, trainset,
                   compile_calls, log, fsAtStart, calls>>
    /\ UNCHANGED envVars
    /\ UNCHANGED <<aKind, aInstructions, aDemos, aOutcome, aPrompt, aResult>>
    /\ UNCHANGED <<metricVars, reflectVars, loaderVars, pairVars>>

\* the handler saving the summary of the failed run before it re-raises
CompileRaises_SavesSummary ==
    /\ pc = "compiling"
    /\ aPc = "ready"
    /\ log' = log \cup {"Optimization failed"}
    /\ summaries' = summaries \cup {Summary(aInstructions)}
    /\ result' = Raise("OptimizerError")
    /\ pc' = "raised"
    /\ aPc' = "idle"
    /\ UNCHANGED <<adapter_md, skill_md, versions, diffs>>
    /\ UNCHANGED <<timestamp, baseline_content, metricKind, trainset, compile_calls, fsAtStart,
                   calls>>
    /\ UNCHANGED envVars
    /\ UNCHANGED <<aKind, aInstructions, aDemos, aOutcome, aPrompt, aResult>>
    /\ UNCHANGED <<metricVars, reflectVars, loaderVars, pairVars>>

\* run_optimization, lines 298 and 341-345: compile raises; print and re-raise
CompileRaises ==
    /\ pc = "compiling"
    /\ aPc = "ready"
    /\ log' = log \cup {"Optimization failed"}
    /\ result' = Raise("OptimizerError")
    /\ pc' = "raised"
    /\ aPc' = "idle"
    /\ UNCHANGED fsVars
    /\ UNCHANGED <<timestamp, baseline_content, metricKind, trainset, compile_calls, fsAtStart,
                   calls>>
    /\ UNCHANGED envVars
    /\ UNCHANGED <<aKind, aInstructions, aDemos, aOutcome, aPrompt, aResult>>
    /\ UNCHANGED <<metricVars, reflectVars, loaderVars, pairVars>>

Next ==
    \/ RunSkillNotFound
    \/ RunNoStories
    \/ RunOptimizerImportError
    \/ RunOptimizerConstructError
    \/ RunCallsCompile
    \/ SetInstructions
    \/ CompileReturns
    \/ CompileRaises

Spec == DriverInit /\ [][Next]_vars

(***************************************************************************)
(* The reflection model as a machine: one call of forward.                 *)
(***************************************************************************)
ReplyTokens == {"{", "}", PI, ":v", "x", " "}
Replies == SeqsUpTo(ReplyTokens, MaxReplyLen)

ReflectPrompts == {<<>>, <<"Propose", "an", "Instruction">>, <<"hello">>}
ReflectMessages == {<<>>, << <<"hi">>, <<"proposed_instruction">> >>, << <<"hi">> >>}

ReflectOutcomes ==
    [kind : {"FileNotFoundError", "TimeoutExpired"}, rc : {-1}, stdout : {<<>>}]
    \cup [kind : {"exit"}, rc : {0}, stdout : Replies]

ReflectInit ==
    /\ lmPrompt \in ReflectPrompts
    /\ lmMessages \in ReflectMessages
    /\ lmModelEnv \in {"", "gemini-pro"}
    /\ lmPc = "ready"
    /\ lmOutcome = NoOutcome
    /\ lmArgs = <<>>
    /\ lmResult = <<>>
    /\ MetricIdle
    /\ AdapterIdle
    /\ DriverIdle
    /\ LoaderIdle
    /\ PairIdle

\* CLIReflectionLM.forward (and __call__, which only forwards to it)
ReflectionForward ==
    /\ lmPc = "ready"
    /\ \E outcome \in ReflectOutcomes :
          /\ lmOutcome' = outcome
          /\ lmResult' = ReflectForward(PromptStr(lmPrompt, lmMessages), outcome)
    /\ lmArgs' = <<CliArgs(PromptStr(lmPrompt, lmMessages), lmModelEnv)>>
    /\ lmPc' = "returned"
    /\ UNCHANGED <<lmPrompt, lmMessages, lmModelEnv>>
    /\ UNCHANGED notReflectVars

ReflectNext == ReflectionForward

SpecReflect == ReflectInit /\ [][ReflectNext]_vars

SpecMetric == MetricInit /\ [][MetricNext]_vars

SpecAdapter == AdapterInit /\ [][AdapterNext]_vars

(***************************************************************************)
(* example_loader.py and load_stories of optimize.py.  A file is kept as   *)
(* the sequence of its lines: its text is the lines joined by newlines, so *)
(* a text that ends with a newline has "" as its last line.                *)
(***************************************************************************)
BlankLine(l) == l = ""

\* the lines with a ':' in them
ColonLines == {"id: e1", "id: e2", "tags: \"t\"", "source_story: s1"}

\* key, value = line.split(':', 1); key.strip()
KeyOf(l) ==
    CASE l = "id: e1"           -> "id"
      [] l = "id: e2"           -> "id"
      [] l = "tags: \"t\""      -> "tags"
      [] l = "source_story: s1" -> "source_story"

\* value.strip().strip('"\'')
ValueOf(l) ==
    CASE l = "id: e1"           -> "e1"
      [] l = "id: e2"           -> "e2"
      [] l = "tags: \"t\""      -> "t"
      [] l = "source_story: s1" -> "s1"

NoMatch == <<"<no match>">>

\* where group 1 can start: after the newline that ends the opening "---"
\* line or a blank line following it
GroupStarts(lines) == {j \in 2..Len(lines) : \A i \in 2..(j - 1) : BlankLine(lines[i])}

\* the closing "---" lines for a group that starts at line j: the line is
\* not the first of the group and a newline follows it
GroupClosers(lines, j) == {k \in (j + 1)..(Len(lines) - 1) : lines[k] = "---"}

\* re.match(r'^---\s*\n(.*?)\n---\s*\n', content, re.DOTALL).group(1), as
\* lines: the greedy \s* takes the last start that has a closer, the lazy
\* group the first closer after it
FrontmatterGroup(lines) ==
    LET ok == {j \in GroupStarts(lines) : GroupClosers(lines, j) # {}}
    IN  IF Len(lines) >= 1 /\ lines[1] = "---" /\ ok # {}
        THEN SubSeq(lines, Greatest(ok), Least(GroupClosers(lines, Greatest(ok))) - 1)
        ELSE NoMatch

\* parse_frontmatter: the mapping of the keys to the value of their last line
parse_frontmatter(content) ==
    LET g == FrontmatterGroup(content)
        colon == {i \in 1..Len(g) : g[i] \in ColonLines}
        keys == {KeyOf(g[i]) : i \in colon}
    IN  IF g = NoMatch \/ keys = {} THEN <<>>
        ELSE [k \in keys |-> ValueOf(g[Greatest({i \in colon : KeyOf(g[i]) = k})])]

\* frontmatter.get(key, default)
Get(d, key, default) == IF key \in DOMAIN d THEN d[key] ELSE default

\* the lines in which "## <section_name>" is followed by nothing but blanks
HeadersOf(section_name) ==
    CASE section_name = "Problem"        -> {"## Problem", "### Problem"}
      [] section_name = "Solution"       -> {"## Solution"}
      [] section_name = "Key Techniques" -> {"## Key Techniques"}

\* the lines that begin with "## "
StartsSection(l) == l \in {"## Problem", "## Solution", "## Key Techniques"}

\* str.strip() of a text kept as lines: no blank line at either end
StripLines(lines) ==
    LET nb == {i \in 1..Len(lines) : ~BlankLine(lines[i])}
    IN  IF nb = {} THEN <<>> ELSE SubSeq(lines, Least(nb), Greatest(nb))

\* extract_section: re.search(rf'## {section_name}\s*\n(.*?)(?=\n## |\Z)').
\* The group starts at the first line after the header that is not blank (at
\* the last line when all are blank) and ends before the next line that
\* begins with "## ", the first line of the group excepted.
extract_section(content, section_name) ==
    LET starts == {i \in 1..(Len(content) - 1) : content[i] \in HeadersOf(section_name)}
    IN  IF starts = {} THEN <<>>
        ELSE LET i  == Least(starts)
                 nb == {j \in (i + 1)..Len(content) : ~BlankLine(content[j])}
                 j  == IF nb = {} THEN Len(content) ELSE Least(nb)
                 nx == {m \in (j + 1)..Len(content) : StartsSection(content[m])}
                 e  == IF nx = {} THEN Len(content) ELSE Least(nx) - 1
             IN  StripLines(SubSeq(content, j, e))

\* the dspy.Example load_examples_from_dir builds from one file
Example(file, dir_name) ==
    LET frontmatter == parse_frontmatter(file.content)
    IN  [ id             |-> Get(frontmatter, "id", file.stem),
          category       |-> dir_name,
          source_story   |-> Get(frontmatter, "source_story", ""),
          tags           |-> Get(frontmatter, "tags", ""),
          problem        |-> extract_section(file.content, "Problem"),
          solution       |-> extract_section(file.content, "Solution"),
          key_techniques |-> extract_section(file.content, "Key Techniques"),
          full_content   |-> file.content ]

\* the dictionary load_stories builds from one file
Story(file, dir_name) ==
    [path |-> <<dir_name, file.stem>>, category |-> dir_name, content |-> file.content]

DirNames == <<"backend", "security">>

NoDir == [exists |-> FALSE, files |-> <<>>]

\* root / name
SubDir(root, name) ==
    IF root.exists /\ name \in DOMAIN root.dirs THEN root.dirs[name] ELSE NoDir

\* [d for d in root.iterdir() if d.is_dir()]
ListDirs(root) == SelectSeq(DirNames, LAMBDA n : SubDir(root, n).exists)

Returned(items) == [kind |-> "list", items |-> items]
Raises(e) == [kind |-> e, items |-> <<>>]

\* the examples of one directory: the files *.example.md, those with another
\* id left out when a story_id is given
ExamplesOf(root, name, story_id) ==
    LET keep(f) == /\ f.kind = "example"
                   /\ ~(story_id # "" /\ Get(parse_frontmatter(f.content), "id", "") # story_id)
        fs == SelectSeq(SubDir(root, name).files, keep)
    IN  [i \in 1..Len(fs) |-> Example(fs[i], name)]

\* the stories of one directory: the files *.story.md
StoriesOf(root, name) ==
    LET keep(f) == f.kind = "story"
        fs == SelectSeq(SubDir(root, name).files, keep)
    IN  [i \in 1..Len(fs) |-> Story(fs[i], name)]

RECURSIVE ExamplesIn(_, _, _)
ExamplesIn(root, names, story_id) ==
    IF names = <<>> THEN <<>>
    ELSE ExamplesOf(root, Head(names), story_id) \o ExamplesIn(root, Tail(names), story_id)

RECURSIVE StoriesIn(_, _)
StoriesIn(root, names) ==
    IF names = <<>> THEN <<>>
    ELSE StoriesOf(root, Head(names)) \o StoriesIn(root, Tail(names))

\* load_examples_from_dir: iterdir() of a root that is not there raises
load_examples_from_dir(root, cat, story_id) ==
    IF cat # "" THEN Returned(ExamplesIn(root, <<cat>>, story_id))
    ELSE IF ~root.exists THEN Raises("FileNotFoundError")
    ELSE Returned(ExamplesIn(root, ListDirs(root), story_id))

\* load_stories
load_stories(root, cat) ==
    IF cat # "" THEN Returned(StoriesIn(root, <<cat>>))
    ELSE IF ~root.exists THEN Raises("FileNotFoundError")
    ELSE Returned(StoriesIn(root, ListDirs(root)))

(***************************************************************************)
(* The loaders as a machine: one call on one directory tree.               *)
(***************************************************************************)
Parts ==
    { <<"---", "id: e1", "---">>,
      <<"---", "", "tags: \"t\"", "id: e2", "---", "">>,
      <<"## Problem", "p", "">>,
      <<"### Problem", "", "## Solution", "s">>,
      <<"## Key Techniques">>,
      <<"">> }

RECURSIVE ContentsUpTo(_)
ContentsUpTo(n) ==
    IF n = 0 THEN {<<>>}
    ELSE ContentsUpTo(n - 1) \cup {c \o q : c \in ContentsUpTo(n - 1), q \in Parts}

Contents == ContentsUpTo(MaxParts)

LoaderFiles == [stem : {"f1"}, kind : {"example", "story"}, content : Contents]

OtherStory == [stem |-> "f2", kind |-> "story", content |-> <<"a story">>]

\* a directory holds no file, one file, or one file and a story after it
FileLists == {<<>>} \cup {<<f>> : f \in LoaderFiles} \cup {<<f, OtherStory>> : f \in LoaderFiles}

\* the trees: no root, or a root with the directory backend (of any files,
\* or missing) and the directory security (empty, or missing)
Roots ==
    {[exists |-> FALSE, dirs |-> <<>>]}
    \cup {[exists |-> TRUE,
           dirs |-> [n \in {"backend", "security"} |->
                        IF n = "backend" THEN b ELSE c]] :
            b \in {NoDir} \cup {[exists |-> TRUE, files |-> fs] : fs \in FileLists},
            c \in {NoDir, [exists |-> TRUE, files |-> <<>>]}}

LoaderInit ==
    /\ ldRoot \in Roots
    /\ ldCategory \in {"", "backend", "security", "qa"}
    /\ ldStoryId \in {"", "e1"}
    /\ ldPc = "ready"
    /\ ldResult = [kind |-> "none", items |-> <<>>]
    /\ MetricIdle
    /\ AdapterIdle
    /\ DriverIdle
    /\ ReflectIdle
    /\ PairIdle

\* load_examples_from_dir(examples_dir, category, story_id)
LoadExamplesFromDir ==
    /\ ldPc = "ready"
    /\ ldResult' = load_examples_from_dir(ldRoot, ldCategory, ldStoryId)
    /\ ldPc' = IF ldResult'.kind = "list" THEN "examples" ELSE "raised"
    /\ UNCHANGED <<ldRoot, ldCategory, ldStoryId>>
    /\ UNCHANGED notLoaderVars

\* load_stories(stories_dir, category)
LoadStories ==
    /\ ldPc = "ready"
    /\ ldResult' = load_stories(ldRoot, ldCategory)
    /\ ldPc' = IF ldResult'.kind = "list" THEN "stories" ELSE "raised"
    /\ UNCHANGED <<ldRoot, ldCategory, ldStoryId>>
    /\ UNCHANGED notLoaderVars

LoaderNext ==
    \/ LoadExamplesFromDir
    \/ LoadStories

SpecLoader == LoaderInit /\ [][LoaderNext]_vars

(***************************************************************************)
(* Two predictions scored by the same metric.                              *)
(***************************************************************************)
PairFragments ==
    { <<"interface", " ", "async">>,
      <<"Error">>,
      <<"foo">>,
      <<"export", " ", "function", " ", "foo">>,
      <<"#", " ", "foo", "\n">>,
      <<"it", "(", "should", " ", "expect", " ", "assert">> }

RECURSIVE PairTextsUpTo(_)
PairTextsUpTo(n) ==
    IF n = 0 THEN {<<>>}
    ELSE PairTextsUpTo(n - 1) \cup {t \o f : t \in PairTextsUpTo(n - 1), f \in PairFragments}

PairTexts == PairTextsUpTo(MaxPairFrags)

PairInit ==
    /\ pKind \in {"TypeScriptMetric", "TestDocMetric"}
    /\ pFirst \in PairTexts
    /\ pSecond \in PairTexts
    /\ pPc = "ready"
    /\ pResults = <<>>
    /\ MetricIdle
    /\ AdapterIdle
    /\ DriverIdle
    /\ ReflectIdle
    /\ LoaderIdle

\* metric(example, first) and metric(example, second), the same metric object
ScorePair ==
    /\ pPc = "ready"
    /\ pResults' = <<Metric(pKind, pFirst), Metric(pKind, pSecond)>>
    /\ pPc' = "scored"
    /\ UNCHANGED <<pKind, pFirst, pSecond>>
    /\ UNCHANGED notPairVars

PairNext == ScorePair

SpecPair == PairInit /\ [][PairNext]_vars

(***************************************************************************)
(* Properties of the metrics.                                              *)
(***************************************************************************)
Scored == mPc = "scored"

IsTs  == get_metric_for_skill(mSkill) = "TypeScriptMetric"
IsDoc == get_metric_for_skill(mSkill) = "TestDocMetric"

\* the primary output is missing, empty or made of whitespace only
BlankOutput ==
    \/ mCode = Missing
    \/ \A i \in 1..Len(mCode) : mCode[i] \in {" ", "\n"}

\* C1: in both variants a missing, empty or whitespace-only primary output
\* scores exactly 0.0, no check is run, and the feedback is the single line
\* "No content generated".
C1_BlankScoresZero ==
    (Scored /\ BlankOutput) =>
        /\ mResult.score = 0
        /\ mResult.checks = <<>>
        /\ mResult.feedback = << <<"No content generated">> >>

C1_Witness ==
    /\ Scored
    /\ mCode # Missing
    /\ Len(mCode) = 2
    /\ BlankOutput
    /\ IsDoc
    /\ mResult.score = 0

\* what is satisfied, per variant, in the order of the check list
TsSatisfied ==
    << TsKeywordCount(mCode) >= 2, has_functions(mCode),
       has_error_handling(mCode), has_exports(mCode) >>

DocSatisfied ==
    << has_test_structure(mCode), TestKeywordCount(mCode) >= 3,
       has_headers(mCode), has_structure(mCode) >>

Satisfied == IF IsDoc THEN DocSatisfied ELSE TsSatisfied

TsLabels  == <<"TypeScript keywords", "Functions/classes found", "Error handling", "Exports">>
DocLabels == <<"Test structure found", "Test keywords", "Headers", "Lists/code blocks">>

\* C2: for a non-empty primary output the score is the arithmetic mean of
\* exactly four partial scores, one per check of the variant's list in its
\* order; it lies in [0,1] and is 1.0 exactly when all four checks are
\* satisfied.
C2_ScoreIsMeanOfFour ==
    (Scored /\ ~BlankOutput) =>
        /\ Len(mResult.checks) = 4
        /\ Len(mResult.feedback) = 4
        /\ \A k \in 1..4 :
              /\ mResult.feedback[k][2] = (IF IsDoc THEN DocLabels[k] ELSE TsLabels[k])
              /\ (mResult.feedback[k][1] = "ok") <=> Satisfied[k]
              /\ (mResult.checks[k] = 1000) <=> Satisfied[k]
        /\ 4 * mResult.score =
              mResult.checks[1] + mResult.checks[2] + mResult.checks[3] + mResult.checks[4]
        /\ mResult.score >= 0
        /\ mResult.score <= 1000
        /\ (mResult.score = 1000) <=> (\A k \in 1..4 : Satisfied[k])

C2_Witness ==
    /\ Scored
    /\ IsDoc
    /\ ~BlankOutput
    /\ mResult.score = 1000
    /\ \A k \in 1..4 : Satisfied[k]

\* C3 as claimed: a hard check contributes 1.0/0.0, a soft presence check
\* 1.0/0.5, and the keyword-count check of either variant 1.0/0.3.
C3_Original ==
    (Scored /\ ~BlankOutput) =>
        /\ IsTs =>
              mResult.checks =
                 << IF TsSatisfied[1] THEN 1000 ELSE 300,
                    IF TsSatisfied[2] THEN 1000 ELSE 0,
                    IF TsSatisfied[3] THEN 1000 ELSE 500,
                    IF TsSatisfied[4] THEN 1000 ELSE 500 >>
        /\ IsDoc =>
              mResult.checks =
                 << IF DocSatisfied[1] THEN 1000 ELSE 0,
                    IF DocSatisfied[2] THEN 1000 ELSE 300,
                    IF DocSatisfied[3] THEN 1000 ELSE 500,
                    IF DocSatisfied[4] THEN 1000 ELSE 500 >>

\* C3 (amended): a hard check contributes 1.0/0.0 and a soft presence check
\* 1.0/0.5; the keyword-count check contributes 1.0/0.3 in the code variant
\* (threshold 2) and 1.0/0.5 in the documentation variant (threshold 3).
C3_PartialsByKind ==
    (Scored /\ ~BlankOutput) =>
        /\ IsTs =>
              mResult.checks =
                 << IF TsSatisfied[1] THEN 1000 ELSE 300,
                    IF TsSatisfied[2] THEN 1000 ELSE 0,
                    IF TsSatisfied[3] THEN 1000 ELSE 500,
                    IF TsSatisfied[4] THEN 1000 ELSE 500 >>
        /\ IsDoc =>
              mResult.checks =
                 << IF DocSatisfied[1] THEN 1000 ELSE 0,
                    IF DocSatisfied[2] THEN 1000 ELSE 500,
                    IF DocSatisfied[3] THEN 1000 ELSE 500,
                    IF DocSatisfied[4] THEN 1000 ELSE 500 >>

C3_Witness ==
    /\ Scored
    /\ IsDoc
    /\ ~BlankOutput
    /\ TestKeywordCount(mCode) = 2
    /\ mResult.checks[2] = 500

\* C18: a score of 0.0 is given to a missing, empty or whitespace-only
\* primary output only: every other output scores at least 0.325 with the
\* code metric and at least 0.375 with the documentation metric, so above
\* the score of an adapter failure.
C18_ZeroOnlyForBlank ==
    Scored =>
        /\ (mResult.score = 0) <=> BlankOutput
        /\ (~BlankOutput /\ IsTs) => mResult.score >= 325
        /\ (~BlankOutput /\ IsDoc) => mResult.score >= 375

C18_Witness ==
    /\ Scored
    /\ IsTs
    /\ ~BlankOutput
    /\ mResult.score = 325
    /\ mResult.checks = <<300, 0, 500, 500>>

\* the text holds a character that is not whitespace
NonEmptyOutput(code) == \E i \in 1..Len(code) : code[i] \notin {" ", "\n"}

\* what a text satisfies, in the order of the check list of the variant
SatisfiedBy(kind, code) ==
    IF kind = "TestDocMetric"
    THEN << has_test_structure(code), TestKeywordCount(code) >= 3,
            has_headers(code), has_structure(code) >>
    ELSE << TsKeywordCount(code) >= 2, has_functions(code),
            has_error_handling(code), has_exports(code) >>

\* the second text satisfies one check more than the first and is like it
\* in the three other checks
OneMoreSatisfied ==
    LET a == SatisfiedBy(pKind, pFirst)
        b == SatisfiedBy(pKind, pSecond)
    IN  \E k \in 1..4 : /\ ~a[k]
                        /\ b[k]
                        /\ \A j \in (1..4) \ {k} : a[j] = b[j]

PairScored == pPc = "scored" /\ NonEmptyOutput(pFirst) /\ NonEmptyOutput(pSecond)

\* C13: within one variant, when the second of two non-empty outputs
\* satisfies one check that the first does not and they agree on the other
\* checks, the score of the second is at least the score of the first.
C13_Monotonic ==
    (PairScored /\ OneMoreSatisfied) => pResults[2].score >= pResults[1].score

C13_Witness ==
    /\ PairScored
    /\ OneMoreSatisfied
    /\ pKind = "TypeScriptMetric"
    /\ ~has_error_handling(pFirst)
    /\ has_error_handling(pSecond)
    /\ pResults[2].score = pResults[1].score + 125

(***************************************************************************)
(* Properties of the adapters.                                             *)
(***************************************************************************)
\* the external invocation failed: subprocess.run raised, or the process ran
\* and exited with a non-zero status
InvocationFailed == Raised(aOutcome) \/ (aOutcome.kind = "exit" /\ aOutcome.rc # 0)

\* C4: forward always returns a Prediction and never raises; in every failure
\* case the primary output is the empty string and the reasoning is non-empty.
C4_Original ==
    (aPc = "returned") =>
        /\ aResult.kind = "Prediction"
        /\ InvocationFailed =>
              /\ aResult.code_output = <<>>
              /\ aResult.reasoning # <<>>

\* C14: whatever overwrites of the instruction and forward calls came
\* before, the prompt a forward call builds holds the instruction installed
\* at the moment of the call, and its demonstrations are the first two of
\* the adapter's demos (all of them when there are fewer), never more.
C14_PromptIsCurrent ==
    (aPc = "returned") =>
        /\ aPrompt.instructions = aInstructions
        /\ Len(aPrompt.demos) <= 2
        /\ Len(aPrompt.demos) = (IF Len(aDemos) < 2 THEN Len(aDemos) ELSE 2)
        /\ \A k \in 1..Len(aPrompt.demos) : aPrompt.demos[k] = aDemos[k]

C14_Witness ==
    /\ aPc = "returned"
    /\ aKind = "TestDocAdapter"
    /\ aInstructions = <<"\n">>
    /\ aPrompt.instructions = <<"\n">>
    /\ Len(aDemos) = 3
    /\ aPrompt.demos = <<"demo1", "demo2">>

IsPrefix(xs, ys) == Len(xs) <= Len(ys) /\ \A k \in 1..Len(xs) : xs[k] = ys[k]

\* the process ran to its end and forward has returned
Responded == aPc = "returned" /\ aOutcome.kind = "exit"

FencesOf(s) == {i \in 1..Len(s) : s[i] = Fence}

\* the response holds a fenced block: an opening fence and a closing one
HasFencedBlock(s) == Cardinality(FencesOf(s)) >= 2

ContentStart(s, i) ==
    IF i + 1 <= Len(s) /\ s[i + 1] = "\n" THEN i + 2
    ELSE IF /\ i + 2 <= Len(s)
            /\ s[i + 1] \in {"typescript", "ts", "javascript", "js"}
            /\ s[i + 2] = "\n"
         THEN i + 3
         ELSE 0

\* the fences that open a block the code adapter takes: followed by the
\* newline as above and, later, by a closing fence
Openings(s) ==
    {i \in FencesOf(s) :
        /\ ContentStart(s, i) # 0
        /\ \E k \in FencesOf(s) : k >= ContentStart(s, i)}

\* the content of the block opened at i: up to the next fence
ContentOf(s, i) ==
    SubSeq(s, ContentStart(s, i),
           Least({k \in FencesOf(s) : k >= ContentStart(s, i)}) - 1)

ReachedSummary == pc = "returned" /\ result.kind = "summary"

DiffWritten == \E d \in diffs : d[1] = timestamp

\* C5: in a run that reaches the summary, changed is false exactly when the
\* instruction installed on the optimized adapter equals the baseline, and a
\* diff file is written exactly in the changed case.
C5_ChangedFlagAndDiff ==
    ReachedSummary =>
        /\ result.summary \in summaries
        /\ result.summary.changed <=> (aInstructions # baseline_content)
        /\ DiffWritten <=> (aInstructions # baseline_content)

C5_Witness ==
    /\ ReachedSummary
    /\ baseline_content = <<"a", "\n">>
    /\ aInstructions = <<"a">>
    /\ result.summary.changed
    /\ DiffWritten

\* C6: when compile raises, the error is re-raised, compile was called once
\* and no file was written: adapter.md, the versioned copies, the diffs and
\* the summaries are as they were when the run started.
C6_CompileRaiseAborts ==
    (result.error = "OptimizerError") =>
        /\ pc = "raised"
        /\ result.kind = "raise"
        /\ compile_calls = 1
        /\ Files = fsAtStart

C6_Witness ==
    /\ pc = "raised"
    /\ result.error = "OptimizerError"
    /\ aInstructions # baseline_content
    /\ timestamp = 2
    /\ versions # {}

\* the run got as far as building the optimizer and has ended
EndedAtOptimizer ==
    /\ pc \in {"returned", "raised"}
    /\ timestamp >= 1
    /\ baseline_content # Absent
    /\ stories # <<>>
    /\ optimizer # "ok"

\* C7 as claimed: when the optimizer cannot be imported or constructed the
\* run logs and propagates an error instead of returning normally.
C7_Original ==
    EndedAtOptimizer => (result.kind = "raise" /\ log # {})

\* C7 (amended): when the optimizer cannot be imported the run prints an
\* error and returns None, without calling compile or writing a file; when
\* constructing it raises another exception, that exception propagates to
\* the caller, unlogged.
C7_Unavailable ==
    EndedAtOptimizer =>
        /\ compile_calls = 0
        /\ Files = fsAtStart
        /\ (optimizer = "ImportError") =>
              (pc = "returned" /\ result.kind = "None" /\ log = {"COPRO not available"})
        /\ (optimizer = "ConstructError") =>
              (pc = "raised" /\ result.kind = "raise" /\ result.error = "ConstructError"
               /\ log = {})

C7_Witness ==
    /\ EndedAtOptimizer
    /\ optimizer = "ImportError"
    /\ pc = "returned"
    /\ result.kind = "None"
    /\ "COPRO not available" \in log

\* C8: the trainset handed to compile is a prefix of the loaded training
\* contexts with min(number of stories, max_rollouts) items, so at most
\* max_rollouts items, for every integer max_rollouts.
C8_Original ==
    (pc = "compiling") =>
        /\ IsPrefix(trainset, stories)
        /\ Len(trainset) <= max_rollouts
        /\ Len(trainset) = (IF Len(stories) < max_rollouts THEN Len(stories) ELSE max_rollouts)

\* C9: the adapter and the metric built for a skill are of the same variant:
\* the documentation pair for qa-engineer, the code pair for any other skill.
C9_SameVariant ==
    (metricKind # "none") =>
        \/ /\ skill_name = "qa-engineer"
           /\ aKind = "TestDocAdapter"
           /\ metricKind = "TestDocMetric"
        \/ /\ skill_name # "qa-engineer"
           /\ aKind = "TypeScriptCodeAdapter"
           /\ metricKind = "TypeScriptMetric"

C9_Witness ==
    /\ pc = "compiling"
    /\ skill_name = "frontend-engineer"
    /\ aKind = "TypeScriptCodeAdapter"
    /\ metricKind = "TypeScriptMetric"

\* a run was started on a skill directory without adapter.md and SKILL.md
SkillMissingAtStart ==
    /\ timestamp >= 1
    /\ fsAtStart[1] = Absent
    /\ fsAtStart[2] = Absent

\* C12: a run on a skill directory that holds neither adapter.md nor
\* SKILL.md raises FileNotFoundError at once: load_baseline_skill is the only
\* thing it called (no story or example was loaded, no adapter, metric or
\* optimizer was built, compile was not called, no process was run) and no
\* file was written.
C12_RaisesImmediately ==
    SkillMissingAtStart =>
        /\ pc = "raised"
        /\ result.kind = "raise"
        /\ result.error = "FileNotFoundError"
        /\ calls = <<"load_baseline_skill">>
        /\ compile_calls = 0
        /\ trainset = <<>>
        /\ aKind = "none"
        /\ aResult = NoPrediction
        /\ Files = fsAtStart

C12_Witness ==
    /\ SkillMissingAtStart
    /\ pc = "raised"
    /\ result.error = "FileNotFoundError"
    /\ timestamp = 2
    /\ stories # <<>>
    /\ optimizer = "ok"

VersionWritten == \E v \in versions : v[1] = timestamp

\* C16: a run whose final instruction equals the baseline leaves the skill
\* directory as it was (adapter.md neither created nor overwritten, SKILL.md
\* untouched, no versioned copy, no diff) and writes the JSON summary only; a
\* run whose instruction changed leaves adapter.md and the versioned copy of
\* the run holding the final instruction, and no summary of a changed run
\* exists without its versioned copy.
C16_ArtifactsByChange ==
    /\ ReachedSummary =>
          /\ summaries = fsAtStart[5] \cup {result.summary}
          /\ skill_md = fsAtStart[2]
          /\ (aInstructions = baseline_content) =>
                /\ adapter_md = fsAtStart[1]
                /\ versions = fsAtStart[3]
                /\ diffs = fsAtStart[4]
          /\ (aInstructions # baseline_content) =>
                /\ adapter_md = aInstructions
                /\ versions = fsAtStart[3] \cup {<<timestamp, aInstructions>>}
    /\ \A sm \in summaries :
          (\E v \in versions : v[1] = sm.timestamp) <=> sm.changed

C16_Witness ==
    /\ ReachedSummary
    /\ aInstructions = baseline_content
    /\ fsAtStart[1] = Absent
    /\ adapter_md = Absent
    /\ skill_md # Absent
    /\ ~VersionWritten
    /\ result.summary \in summaries

\* C17: after a run that reports changed = true, load_baseline_skill on the
\* skill directory returns exactly the final instruction of the run, and
\* SKILL.md is as it was; a run that ends with the instruction it loaded
\* reports changed = false and writes no diff.
C17_Original ==
    ReachedSummary =>
        /\ skill_md = fsAtStart[2]
        /\ result.summary.changed => Loaded = aInstructions
        /\ (aInstructions = baseline_content) => (~result.summary.changed /\ ~DiffWritten)

(***************************************************************************)
(* CLIReflectionLM.forward                                                 *)
(***************************************************************************)
Reflected == lmPc = "returned"

JsonValues == {":v", FromContent, Minimal, Fallback}

NonBlank(t) == ~IsWS(t)

\* the text is a JSON object with the member "proposed_instruction": between
\* the braces, blanks aside, the key with a value and at most the prefix member
ValidJsonWithPI(text) ==
    LET t == SelectSeq(text, NonBlank)
    IN  \E v \in JsonValues : t = <<"{", PI, v, "}">> \/ t = Dumps(v)

\* C10: every reflection call, whatever the process did (a reply holding the
\* expected object, free text, an empty reply, a failure to start, a
\* timeout), returns a list of one text that is a valid JSON object with the
\* field proposed_instruction.
C10_Original ==
    Reflected => /\ Len(lmResult) = 1
                 /\ ValidJsonWithPI(lmResult[1])

(***************************************************************************)
(* The loaders                                                             *)
(***************************************************************************)
LoaderCalled == ldPc \in {"examples", "stories", "raised"}

\* the root is missing, or the directory of the category given is
MissingInput ==
    \/ ~ldRoot.exists
    \/ ldCategory # "" /\ ~SubDir(ldRoot, ldCategory).exists

\* the file the item was made of has no frontmatter that parses to a key
NoKeys(item) == parse_frontmatter(item.full_content) = <<>>

\* C11: load_examples_from_dir and load_stories never fail on missing
\* inputs: with or without a category, a missing root or a missing category
\* directory gives an empty list and no exception, and an example file
\* without usable frontmatter is still loaded, with the defaults for the
\* fields of the frontmatter.
C11_Original ==
    LoaderCalled =>
        /\ ldResult.kind = "list"
        /\ MissingInput => ldResult.items = <<>>
        /\ ldPc = "examples" =>
              \A i \in 1..Len(ldResult.items) :
                  NoKeys(ldResult.items[i]) =>
                      /\ ldResult.items[i].source_story = ""
                      /\ ldResult.items[i].tags = ""

====
